---- MODULE Spec2Model ----
(***************************************************************************)
(* Model of the Smart Facts dashboard of build_dashboard.py: the view      *)
(* engine embedded in the generated document (smartFactsDashboard()): its  *)
(* filter state, the derived filteredInsights and stats getters, and the   *)
(* CSV export; and the build that produces the document (main(): the      *)
(* resolver extract_smart_facts_from_codebase() and                        *)
(* generate_dashboard_html()), under the specification SpecBuild.          *)
(*                                                                         *)
(* Text is modelled as a sequence of one-character strings, so that        *)
(* substring search, case folding, replacement and quoting are computed    *)
(* character by character as the script computes them.  An optional field *)
(* of a record (cta, templateKeys, requiredContext) is a sequence of       *)
(* length 0 (the key is absent, JavaScript undefined) or 1 (present).      *)
(***************************************************************************)
EXTENDS Integers, Sequences, FiniteSets, TLC

\* ------------------------------------------------------------------------
\* Bounds of the model
\* ------------------------------------------------------------------------

\* Longest base sequence of insights embedded in the document.
MaxInsights == 2

\* Longest text typed into the search box.
MaxQueryLen == 2

\* Characters typed into the search box: one letter in both cases.
QueryChars == {"a", "A"}

Queries == UNION {[1..n -> QueryChars] : n \in 0..MaxQueryLen}

\* ------------------------------------------------------------------------
\* Insight records
\* ------------------------------------------------------------------------

None == <<>>

Some(v) == <<v>>

Status == {"live", "review", "draft", "retired", "archived"}

\* id "A": static, live, no CTA.
InsightA ==
    [id |-> <<"A">>, content |-> <<"b">>, status |-> "live", priority |-> 1,
     isDynamic |-> FALSE, hasCta |-> FALSE, cta |-> None,
     requiredContext |-> Some(<< <<"S">> >>),
     requiresPrimaryUser |-> FALSE, requiresProfileComplete |-> FALSE,
     templateKeys |-> Some(<<>>)]

\* id "B": dynamic, retired, with a CTA; content  HaA,"W"<LF>L
InsightB ==
    [id |-> <<"B">>,
     content |-> <<"H", "a", "A", ",", "\"", "W", "\"", "\n", "L">>,
     status |-> "retired", priority |-> 10,
     isDynamic |-> TRUE, hasCta |-> TRUE,
     cta |-> Some([text |-> <<"G", "o", ",">>, url |-> <<"\r">>]),
     requiredContext |-> Some(<<>>),
     requiresPrimaryUser |-> TRUE, requiresProfileComplete |-> FALSE,
     templateKeys |-> Some(<< <<"x">>, <<"y">> >>)]

\* id "ab": hasCta set but no cta record, no templateKeys, no requiredContext.
InsightMalformed ==
    [id |-> <<"a", "b">>, content |-> <<"A">>, status |-> "review",
     priority |-> 2, isDynamic |-> FALSE, hasCta |-> TRUE, cta |-> None,
     requiredContext |-> None,
     requiresPrimaryUser |-> FALSE, requiresProfileComplete |-> TRUE,
     templateKeys |-> None]

\* id "b": draft, cta record without the hasCta flag; content <CR>b<LF>.
InsightDraft ==
    [id |-> <<"b">>, content |-> <<"\r", "b", "\n">>, status |-> "draft",
     priority |-> 3, isDynamic |-> TRUE, hasCta |-> FALSE,
     cta |-> Some([text |-> <<"b", "\n">>, url |-> <<"\"">>]),
     requiredContext |-> Some(<< <<"S">>, <<"U">> >>),
     requiresPrimaryUser |-> FALSE, requiresProfileComplete |-> FALSE,
     templateKeys |-> Some(<< <<"k">> >>)]

\* id "C,": archived, negative priority.
InsightArchived ==
    [id |-> <<"C", ",">>, content |-> <<"c">>, status |-> "archived",
     priority |-> -1, isDynamic |-> FALSE, hasCta |-> TRUE,
     cta |-> Some([text |-> <<"o", "k">>, url |-> <<"u">>]),
     requiredContext |-> Some(<<>>),
     requiresPrimaryUser |-> TRUE, requiresProfileComplete |-> TRUE,
     templateKeys |-> Some(<<>>)]

InsightPool ==
    {InsightA, InsightB, InsightMalformed, InsightDraft, InsightArchived}

\* ------------------------------------------------------------------------
\* State of smartFactsDashboard()
\* ------------------------------------------------------------------------

VARIABLES
    insights,       \* the base sequence embedded in the document
    searchQuery,    \* text of the search box
    statusFilter,   \* value of the status select
    typeFilter,     \* value of the type select
    viewMode,       \* "grid" or "list"
    exportInvoked,  \* TRUE iff the step just taken was a click on Export CSV
    download,       \* the file offered for download by the step just taken
    thrown,         \* the exception raised by the step just taken
    statsAtLoad     \* history: the value of stats when the document loaded

\* State of one run of main(), the build of the document.
VARIABLES
    pc,             \* position of the run of main()
    environ,        \* os.environ.get('CODEBASE_PATH')
    fs,             \* the file system the run sees
    pathIndex,      \* position of the loop over possible_paths
    codebase_path,  \* the location chosen by the loop
    resolved,       \* the value returned by the resolver
    raised,         \* the exception that ended the run
    indexHtml,      \* the content written to index.html
    returned        \* the value returned by main()

buildVars == <<pc, environ, fs, pathIndex, codebase_path, resolved, raised,
               indexHtml, returned>>

vars == <<insights, searchQuery, statusFilter, typeFilter, viewMode,
          exportInvoked, download, thrown, statsAtLoad, buildVars>>

StatusOptions == {""} \cup Status

TypeOptions == {"", "static", "dynamic"}

ViewModes == {"grid", "list"}

\* ------------------------------------------------------------------------
\* String helpers (String.prototype / Array.prototype functions used)
\* ------------------------------------------------------------------------

\* The lower-case letter of each upper-case letter.
LowerOf ==
    [A |-> "a", B |-> "b", C |-> "c", D |-> "d", E |-> "e", F |-> "f",
     G |-> "g", H |-> "h", I |-> "i", J |-> "j", K |-> "k", L |-> "l",
     M |-> "m", N |-> "n", O |-> "o", P |-> "p", Q |-> "q", R |-> "r",
     S |-> "s", T |-> "t", U |-> "u", V |-> "v", W |-> "w", X |-> "x",
     Y |-> "y", Z |-> "z"]

UpperCaseLetters == DOMAIN LowerOf

LowerChar(c) == IF c \in UpperCaseLetters THEN LowerOf[c] ELSE c

toLowerCase_identity(s) == s

toLowerCase(s) == [i \in 1..Len(s) |-> LowerChar(s[i])]

\* s.includes(t): t occurs in s as a contiguous substring.
includes(s, t) ==
    \E i \in 0..(Len(s) - Len(t)) : SubSeq(s, i + 1, i + Len(t)) = t

\* ------------------------------------------------------------------------
\* get filteredInsights()
\* ------------------------------------------------------------------------

matchesSearch(query, insight) ==
    \/ query = <<>>
    \/ includes(toLowerCase(insight.id), toLowerCase(query))
    \/ includes(toLowerCase(insight.content), toLowerCase(query))

matchesStatus_strict(filter, insight) ==
    insight.status = filter

matchesStatus(filter, insight) ==
    filter = "" \/ insight.status = filter

matchesType_swapped(filter, insight) ==
    \/ filter = ""
    \/ (filter = "static" /\ insight.isDynamic)
    \/ (filter = "dynamic" /\ ~insight.isDynamic)

matchesType(filter, insight) ==
    \/ filter = ""
    \/ (filter = "static" /\ ~insight.isDynamic)
    \/ (filter = "dynamic" /\ insight.isDynamic)

filterInsights_reversed(query, status, type) ==
    LET kept == SelectSeq(insights,
                          LAMBDA insight : /\ matchesSearch(query, insight)
                                           /\ matchesStatus(status, insight)
                                           /\ matchesType(type, insight))
    IN  [k \in 1..Len(kept) |-> kept[Len(kept) + 1 - k]]

\* this.insights.filter(...) under the filter state (query, status, type).
filterInsights(query, status, type) ==
    SelectSeq(insights,
              LAMBDA insight : /\ matchesSearch(query, insight)
                               /\ matchesStatus(status, insight)
                               /\ matchesType(type, insight))

filteredInsights == filterInsights(searchQuery, statusFilter, typeFilter)

\* ------------------------------------------------------------------------
\* get stats()
\* ------------------------------------------------------------------------

statsOf_ctaPresence(list) ==
    [total   |-> Len(list),
     live    |-> Len(SelectSeq(list, LAMBDA i : i.status = "live")),
     review  |-> Len(SelectSeq(list, LAMBDA i : i.status = "review")),
     dynamic |-> Len(SelectSeq(list, LAMBDA i : i.isDynamic)),
     withCta |-> Len(SelectSeq(list, LAMBDA i : i.cta # None)),
     retired |-> Len(SelectSeq(list, LAMBDA i : i.status = "retired"))]

statsOf(list) ==
    [total   |-> Len(list),
     live    |-> Len(SelectSeq(list, LAMBDA i : i.status = "live")),
     review  |-> Len(SelectSeq(list, LAMBDA i : i.status = "review")),
     dynamic |-> Len(SelectSeq(list, LAMBDA i : i.isDynamic)),
     withCta |-> Len(SelectSeq(list, LAMBDA i : i.hasCta)),
     retired |-> Len(SelectSeq(list, LAMBDA i : i.status = "retired"))]

stats_filtered == statsOf(filteredInsights)

stats == statsOf(insights)

\* ------------------------------------------------------------------------
\* exportToCSV()
\* ------------------------------------------------------------------------

\* The characters of the string literals of the script.
Chars(s) ==
    CASE s = "ID" -> <<"I", "D">>
      [] s = "Status" -> <<"S", "t", "a", "t", "u", "s">>
      [] s = "Priority" -> <<"P", "r", "i", "o", "r", "i", "t", "y">>
      [] s = "Type" -> <<"T", "y", "p", "e">>
      [] s = "Content" -> <<"C", "o", "n", "t", "e", "n", "t">>
      [] s = "Dynamic Variables" -> <<"D", "y", "n", "a", "m", "i", "c", " ", "V", "a", "r", "i", "a", "b", "l", "e", "s">>
      [] s = "CTA Text" -> <<"C", "T", "A", " ", "T", "e", "x", "t">>
      [] s = "CTA URL" -> <<"C", "T", "A", " ", "U", "R", "L">>
      [] s = "Required Context" -> <<"R", "e", "q", "u", "i", "r", "e", "d", " ", "C", "o", "n", "t", "e", "x", "t">>
      [] s = "Requires Primary User" -> <<"R", "e", "q", "u", "i", "r", "e", "s", " ", "P", "r", "i", "m", "a", "r", "y", " ", "U", "s", "e", "r">>
      [] s = "Requires Profile Complete" -> <<"R", "e", "q", "u", "i", "r", "e", "s", " ", "P", "r", "o", "f", "i", "l", "e", " ", "C", "o", "m", "p", "l", "e", "t", "e">>
      [] s = "Has CTA" -> <<"H", "a", "s", " ", "C", "T", "A">>
      [] s = "Yes" -> <<"Y", "e", "s">>
      [] s = "No" -> <<"N", "o">>
      [] s = "Dynamic" -> <<"D", "y", "n", "a", "m", "i", "c">>
      [] s = "Static" -> <<"S", "t", "a", "t", "i", "c">>
      [] s = "live" -> <<"l", "i", "v", "e">>
      [] s = "review" -> <<"r", "e", "v", "i", "e", "w">>
      [] s = "draft" -> <<"d", "r", "a", "f", "t">>
      [] s = "retired" -> <<"r", "e", "t", "i", "r", "e", "d">>
      [] s = "archived" -> <<"a", "r", "c", "h", "i", "v", "e", "d">>

Digit(d) ==
    CASE d = 0 -> "0" [] d = 1 -> "1" [] d = 2 -> "2" [] d = 3 -> "3"
      [] d = 4 -> "4" [] d = 5 -> "5" [] d = 6 -> "6" [] d = 7 -> "7"
      [] d = 8 -> "8" [] d = 9 -> "9"

RECURSIVE NatToStr(_)
NatToStr(n) ==
    IF n < 10 THEN <<Digit(n)>>
    ELSE NatToStr(n \div 10) \o <<Digit(n % 10)>>

\* String(n) of an integer number n.
NumToStr(n) == IF n < 0 THEN <<"-">> \o NatToStr(-n) ELSE NatToStr(n)

\* s.replace(/c/g, rep)
RECURSIVE replaceAll(_, _, _)
replaceAll(s, c, rep) ==
    IF Len(s) = 0 THEN <<>>
    ELSE (IF Head(s) = c THEN rep ELSE <<Head(s)>>)
         \o replaceAll(Tail(s), c, rep)

\* list.join(sep), list a sequence of texts
RECURSIVE join(_, _)
join(list, sep) ==
    IF Len(list) = 0 THEN <<>>
    ELSE IF Len(list) = 1 THEN list[1]
    ELSE list[1] \o sep \o join(Tail(list), sep)

\* A JavaScript value of a CSV cell: a string or a number.
Str(s) == [type |-> "string", v |-> s]

Num(n) == [type |-> "number", v |-> n]

YesNo(b) == Str(Chars(IF b THEN "Yes" ELSE "No"))

headers_swapped ==
    <<"ID", "Status", "Priority", "Type", "Content", "Dynamic Variables",
      "CTA URL", "CTA Text", "Required Context", "Requires Primary User",
      "Requires Profile Complete", "Has CTA">>

\* Object.keys(csvData[0]): the keys of a row object in insertion order.
headers ==
    <<"ID", "Status", "Priority", "Type", "Content", "Dynamic Variables",
      "CTA Text", "CTA URL", "Required Context", "Requires Primary User",
      "Requires Profile Complete", "Has CTA">>

HeaderNames == {headers[h] : h \in 1..Len(headers)}

csvRow_keepCR(insight) ==
    [h \in HeaderNames |->
        CASE h = "ID" -> Str(insight.id)
          [] h = "Status" -> Str(Chars(insight.status))
          [] h = "Priority" -> Num(insight.priority)
          [] h = "Type" ->
                Str(Chars(IF insight.isDynamic THEN "Dynamic" ELSE "Static"))
          [] h = "Content" ->
                Str(replaceAll(insight.content, "\n", <<" ">>))
          [] h = "Dynamic Variables" ->
                Str(IF insight.templateKeys # None
                    THEN join(insight.templateKeys[1], <<";", " ">>)
                    ELSE <<>>)
          [] h = "CTA Text" ->
                Str(IF insight.cta # None THEN insight.cta[1].text ELSE <<>>)
          [] h = "CTA URL" ->
                Str(IF insight.cta # None THEN insight.cta[1].url ELSE <<>>)
          [] h = "Required Context" ->
                Str(IF insight.requiredContext # None
                    THEN join(insight.requiredContext[1], <<";", " ">>)
                    ELSE <<>>)
          [] h = "Requires Primary User" -> YesNo(insight.requiresPrimaryUser)
          [] h = "Requires Profile Complete" ->
                YesNo(insight.requiresProfileComplete)
          [] h = "Has CTA" -> YesNo(insight.hasCta)]

\* The row object built for one insight.
csvRow(insight) ==
    [h \in HeaderNames |->
        CASE h = "ID" -> Str(insight.id)
          [] h = "Status" -> Str(Chars(insight.status))
          [] h = "Priority" -> Num(insight.priority)
          [] h = "Type" ->
                Str(Chars(IF insight.isDynamic THEN "Dynamic" ELSE "Static"))
          [] h = "Content" ->
                Str(replaceAll(replaceAll(insight.content, "\n", <<" ">>),
                               "\r", <<>>))
          [] h = "Dynamic Variables" ->
                Str(IF insight.templateKeys # None
                    THEN join(insight.templateKeys[1], <<";", " ">>)
                    ELSE <<>>)
          [] h = "CTA Text" ->
                Str(IF insight.cta # None THEN insight.cta[1].text ELSE <<>>)
          [] h = "CTA URL" ->
                Str(IF insight.cta # None THEN insight.cta[1].url ELSE <<>>)
          [] h = "Required Context" ->
                Str(IF insight.requiredContext # None
                    THEN join(insight.requiredContext[1], <<";", " ">>)
                    ELSE <<>>)
          [] h = "Requires Primary User" -> YesNo(insight.requiresPrimaryUser)
          [] h = "Requires Profile Complete" ->
                YesNo(insight.requiresProfileComplete)
          [] h = "Has CTA" -> YesNo(insight.hasCta)]

csvData_unfiltered == [k \in 1..Len(insights) |-> csvRow(insights[k])]

\* this.filteredInsights.map(insight => ({...}))
csvData ==
    LET filtered == filteredInsights
    IN  [k \in 1..Len(filtered) |-> csvRow(filtered[k])]

csvField_quoteOnCR(value) ==
    IF /\ value.type = "string"
       /\ \/ includes(value.v, <<",">>)
          \/ includes(value.v, <<"\"">>)
          \/ includes(value.v, <<"\n">>)
          \/ includes(value.v, <<"\r">>)
    THEN Str(<<"\"">> \o replaceAll(value.v, "\"", <<"\"", "\"">>)
             \o <<"\"">>)
    ELSE value

csvField_noDoubling(value) ==
    IF /\ value.type = "string"
       /\ \/ includes(value.v, <<",">>)
          \/ includes(value.v, <<"\"">>)
          \/ includes(value.v, <<"\n">>)
    THEN Str(<<"\"">> \o value.v \o <<"\"">>)
    ELSE value

\* The cell written for a value: quoted when it is a string that contains
\* a comma, a double quote or a newline.
csvField(value) ==
    IF /\ value.type = "string"
       /\ \/ includes(value.v, <<",">>)
          \/ includes(value.v, <<"\"">>)
          \/ includes(value.v, <<"\n">>)
    THEN Str(<<"\"">> \o replaceAll(value.v, "\"", <<"\"", "\"">>)
             \o <<"\"">>)
    ELSE value

\* The string conversion Array.prototype.join applies to an element.
stringOf(value) ==
    IF value.type = "number" THEN NumToStr(value.v) ELSE value.v

csvLine(row) ==
    join([h \in 1..Len(headers) |-> stringOf(csvField(row[headers[h]]))],
         <<",">>)

csvContent ==
    LET data == csvData
    IN  join(<<join([h \in 1..Len(headers) |-> Chars(headers[h])], <<",">>)>>
             \o [k \in 1..Len(data) |-> csvLine(data[k])],
             <<"\n">>)

exportResult_headerOnly ==
    [thrown |-> "none", download |-> Some(csvContent)]

\* What one call of exportToCSV() does after building csvData: with no
\* rows csvData[0] is undefined and Object.keys(undefined) throws a
\* TypeError before any text or Blob is built; otherwise the CSV text is
\* offered for download through link.click().
exportResult ==
    IF Len(csvData) = 0
    THEN [thrown |-> "TypeError", download |-> None]
    ELSE [thrown |-> "none", download |-> Some(csvContent)]

\* ------------------------------------------------------------------------
\* Rendering of the cards (grid and list templates)
\* ------------------------------------------------------------------------

\* The expressions bound in one card; the grid card and the list card bind
\* the same expressions.
cardBindings ==
    {"insight.id", "'status-' + insight.status", "insight.status",
     "insight.isDynamic", "insight.hasCta", "insight.priority",
     "insight.content",
     "insight.templateKeys && insight.templateKeys.length > 0",
     "key in insight.templateKeys",
     "insight.cta", "insight.cta.text", "insight.cta.url",
     "insight.requiresPrimaryUser", "insight.requiresProfileComplete",
     "insight.requiredContext && insight.requiredContext.length > 0",
     "insight.requiredContext.join(', ')"}

\* Evaluating a bound expression for an insight throws a TypeError: a
\* property is read from, or a method is called on, an undefined field.
\* x-show only hides its element, so the bindings below it are evaluated
\* whatever the x-show expression yields; x-for over undefined is empty.
bindingThrows(expr, insight) ==
    \/ expr \in {"insight.cta.text", "insight.cta.url"} /\ insight.cta = None
    \/ expr = "insight.requiredContext.join(', ')"
          /\ insight.requiredContext = None

\* The failing evaluations of the current rendering.  Both templates are
\* instantiated for every filtered insight; viewMode only hides one.
renderErrors ==
    LET filtered == filteredInsights
    IN  {<<view, k, expr>> \in
            ViewModes \X (1..Len(filtered)) \X cardBindings :
                bindingThrows(expr, filtered[k])}

\* ------------------------------------------------------------------------
\* Initial state and user actions
\* ------------------------------------------------------------------------

\* No build is running while a generated document is being viewed.
NoBuild ==
    /\ pc = "viewing"
    /\ environ = None
    /\ fs = [existing |-> {}, definitions |-> FALSE, templates |-> FALSE,
             readable |-> FALSE]
    /\ pathIndex = 1
    /\ codebase_path = None
    /\ resolved = None
    /\ raised = "none"
    /\ indexHtml = None
    /\ returned = None

Init ==
    /\ NoBuild
    /\ \E n \in 0..MaxInsights : insights \in [1..n -> InsightPool]
    /\ searchQuery = <<>>
    /\ statusFilter = ""
    /\ typeFilter = ""
    /\ viewMode = "grid"
    /\ exportInvoked = FALSE
    /\ download = None
    /\ thrown = "none"
    /\ statsAtLoad = stats

NoExport ==
    /\ exportInvoked' = FALSE
    /\ download' = None
    /\ thrown' = "none"

\* x-model="searchQuery"
SetSearchQuery ==
    /\ \E q \in Queries : searchQuery' = q
    /\ NoExport
    /\ UNCHANGED <<insights, statusFilter, typeFilter, viewMode, statsAtLoad,
                   buildVars>>

\* x-model="statusFilter"
SetStatusFilter ==
    /\ \E s \in StatusOptions : statusFilter' = s
    /\ NoExport
    /\ UNCHANGED <<insights, searchQuery, typeFilter, viewMode, statsAtLoad,
                   buildVars>>

\* x-model="typeFilter"
SetTypeFilter ==
    /\ \E t \in TypeOptions : typeFilter' = t
    /\ NoExport
    /\ UNCHANGED <<insights, searchQuery, statusFilter, viewMode, statsAtLoad,
                   buildVars>>

\* @click="viewMode = 'grid'" and @click="viewMode = 'list'"
SetViewMode ==
    /\ \E m \in ViewModes : viewMode' = m
    /\ NoExport
    /\ UNCHANGED <<insights, searchQuery, statusFilter, typeFilter,
                   statsAtLoad, buildVars>>

\* @click="exportToCSV()"
exportToCSV ==
    /\ exportInvoked' = TRUE
    /\ LET result == exportResult
       IN  /\ download' = result.download
           /\ thrown' = result.thrown
    /\ UNCHANGED <<insights, searchQuery, statusFilter, typeFilter, viewMode,
                   statsAtLoad, buildVars>>

Next ==
    \/ exportToCSV
    \/ SetSearchQuery
    \/ SetStatusFilter
    \/ SetTypeFilter
    \/ SetViewMode

Spec == Init /\ [][Next]_vars

\* ------------------------------------------------------------------------
\* The build: extract_smart_facts_from_codebase(), generate_dashboard_html()
\* and main()
\* ------------------------------------------------------------------------

\* The fixed candidate locations of the resolver.
FixedPaths == <<"../hometap", "../../hometap", "/tmp/codebase">>

\* Values of CODEBASE_PATH: unset, empty, a location of its own, and a
\* location that is also a fixed candidate.
EnvironValues == {None, Some(""), Some("/srv/codebase"), Some("/tmp/codebase")}

Locations == {"/srv/codebase", "../hometap", "../../hometap", "/tmp/codebase"}

\* A file system: the locations that exist, whether definitions.py and
\* display_templates.py exist under a location, and whether open()/read()
\* of them succeeds.
FileSystems ==
    [existing : SUBSET Locations, definitions : BOOLEAN,
     templates : BOOLEAN, readable : BOOLEAN]

possible_paths ==
    <<environ, Some(FixedPaths[1]), Some(FixedPaths[2]), Some(FixedPaths[3])>>

\* `path and os.path.exists(path)`: None and "" are falsy.
pathUsable(path) == path # None /\ path[1] # "" /\ path[1] \in fs.existing

\* get_hardcoded_insights(): the built-in fallback sequence, one record.
get_hardcoded_insights ==
    << [id |-> <<"S", "M", "R", "T", "1">>,
        content |->
          <<"I", "n", "t", "e", "r", "e", "s", "t", " ", "r", "a", "t",
            "e", "s", " ", "c", "a", "n", " ", "b", "e", " ", "u", "n",
            "p", "r", "e", "d", "i", "c", "t", "a", "b", "l", "e", ".",
            " ", "B", "u", "t", " ", "t", "h", "e", "r", "e", " ", "a",
            "r", "e", " ", "w", "a", "y", "s", " ", "t", "o", " ", "a",
            "c", "c", "e", "s", "s", " ", "y", "o", "u", "r", " ", "e",
            "q", "u", "i", "t", "y", " ", "w", "i", "t", "h", "o", "u",
            "t", " ", "l", "o", "s", "i", "n", "g", " ", "y", "o", "u",
            "r", " ", "c", "u", "r", "r", "e", "n", "t", " ", "l", "o",
            "w", " ", "m", "o", "r", "t", "g", "a", "g", "e", " ", "r",
            "a", "t", "e", ".">>,
        status |-> "live", priority |-> 1,
        isDynamic |-> FALSE, hasCta |-> TRUE,
        cta |-> Some(
          [text |->
             <<"S", "e", "e", " ", "w", "a", "y", "s", " ", "t", "o", " ",
               "a", "c", "c", "e", "s", "s", " ", "e", "q", "u", "i", "t",
               "y">>,
           url |->
             <<"h", "t", "t", "p", "s", ":", "/", "/", "w", "w", "w", ".",
               "h", "o", "m", "e", "t", "a", "p", ".", "c", "o", "m", "/",
               "b", "l", "o", "g", "/", "c", "a", "s", "h", "-", "o", "u",
               "t", "-", "r", "e", "f", "i", "n", "a", "n", "c", "e", "-",
               "v", "s", "-", "a", "-", "h", "o", "m", "e", "-", "e", "q",
               "u", "i", "t", "y", "-", "l", "o", "a", "n", "/">>]),
        requiredContext |-> Some(<< <<"S", "Y", "S", "T", "E", "M">> >>),
        requiresPrimaryUser |-> FALSE,
        requiresProfileComplete |-> FALSE,
        templateKeys |-> Some(<<>>)] >>

\* extract_from_files(codebase_path): the outcome of the call, a raised
\* exception or a returned value.
extract_from_files(path) ==
    IF fs.definitions /\ fs.templates
    THEN IF fs.readable
         THEN [raised |-> "none", value |-> get_hardcoded_insights]
         ELSE [raised |-> "OSError", value |-> <<>>]
    ELSE [raised |-> "none", value |-> <<>>]

resolveInsights_noExcept(path) ==
    IF path # None
    THEN extract_from_files(path[1])
    ELSE [raised |-> "none", value |-> get_hardcoded_insights]

\* The try statement of extract_smart_facts_from_codebase() and its return.
resolveInsights(path) ==
    LET attempt == IF path # None
                   THEN extract_from_files(path[1])
                   ELSE [raised |-> "none", value |-> get_hardcoded_insights]
    IN  IF attempt.raised # "none"
        THEN [raised |-> "none", value |-> get_hardcoded_insights]
        ELSE attempt

\* A piece of the generated document: literal text, or a substituted value.
Literal(t) == [kind |-> "text", text |-> t, data |-> <<>>]

\* json.dumps(insights, indent=2): the serialised sequence.
json_dumps(list) == [kind |-> "json", text |-> "", data |-> list]

\* datetime.now().strftime(...)
strftime == Literal("%B %d, %Y at %I:%M %p")

\* The template as str.format() reads it: every brace character is a token
\* of its own, the text right after an unescaped "{" is cut at its first
\* ":" into the field name and the format specification, and every other
\* stretch of text is named by the source lines it spans.
html_template ==
    <<"(lines 100-109)", "{", "\n            background", ":",
      "(lines 110-111)", "}", "(lines 111-112)", "{",
      "\n            transition", ":", "(lines 113-114)", "}",
      "(lines 114-115)", "{", "\n            transform", ":",
      "(lines 116-118)", "}", "(lines 118-119)", "{",
      "\n            font-size", ":", "(lines 120-124)", "}",
      "(lines 124-125)", "{", " background-color", ":", "(line 125)",
      "}", "(lines 125-126)", "{", " background-color", ":",
      "(line 126)", "}", "(lines 126-127)", "{", " background-color",
      ":", "(line 127)", "}", "(lines 127-128)", "{",
      " background-color", ":", "(line 128)", "}", "(lines 128-129)",
      "{", " background-color", ":", "(line 129)", "}",
      "(lines 129-141)", "{", "last_updated", "}", "(lines 141-454)", "{",
      "{", "(lines 454-455)", "{", "{", "(lines 455-461)", "{",
      "insights_json", "}", "(lines 461-463)", "{", "{", "(lines 463-464)",
      "{", "{", "(lines 464-476)", "}", "}", "(lines 476-477)", "}", "}",
      "(lines 477-479)", "{", "{", "(lines 479-480)", "{", "{",
      "(lines 480-487)", "}", "}", "(lines 487-488)", "}", "}",
      "(lines 488-490)", "{", "{", "(lines 490-491)", "{", "{",
      "(lines 491-504)", "}", "}", "(lines 504-511)", "{", "{",
      "(lines 511-514)", "{", "{", "(lines 514-515)", "{", "{",
      "(line 515)", "}", "}", "(lines 515-516)", "}", "}",
      "(lines 516-518)", "}", "}", "(lines 518-523)", "{", "{",
      "(line 523)", "}", "}", "(lines 523-527)", "{", "{", "(line 527)",
      "}", "}", "(lines 527-532)", "}", "}", "(lines 532-533)", "}", "}",
      "(lines 533-534)", "}", "}", "(lines 534-537)">>

Min(S) == CHOOSE m \in S : \A n \in S : m <= n

RECURSIVE formatFrom(_, _, _, _)
\* str.format() from token i on: "{{" and "}}" are literal braces, "{"
\* opens a replacement field looked up by name among the keyword arguments,
\* a single "}" is an error.
formatFrom(template, i, kwargs, out) ==
    IF i > Len(template)
    THEN [raised |-> "none", key |-> "", value |-> out]
    ELSE LET t == template[i]
             next == IF i < Len(template) THEN template[i + 1] ELSE ""
         IN  CASE t = "{" /\ next = "{" ->
                    formatFrom(template, i + 2, kwargs,
                               Append(out, Literal("{")))
               [] t = "{" /\ next # "{" ->
                    LET closing == {j \in (i + 1)..Len(template) :
                                        template[j] = "}"}
                        name == IF next \in {":", "!", "}"} THEN "" ELSE next
                    IN  IF closing = {}
                        THEN [raised |-> "ValueError", key |-> "",
                              value |-> <<>>]
                        ELSE IF name = ""
                        THEN [raised |-> "IndexError", key |-> "",
                              value |-> <<>>]
                        ELSE IF name \notin DOMAIN kwargs
                        THEN [raised |-> "KeyError", key |-> name,
                              value |-> <<>>]
                        ELSE formatFrom(template, Min(closing) + 1, kwargs,
                                        Append(out, kwargs[name]))
               [] t = "}" /\ next = "}" ->
                    formatFrom(template, i + 2, kwargs,
                               Append(out, Literal("}")))
               [] t = "}" /\ next # "}" ->
                    [raised |-> "ValueError", key |-> "", value |-> <<>>]
               [] OTHER ->
                    formatFrom(template, i + 1, kwargs,
                               Append(out, Literal(t)))

format(template, kwargs) == formatFrom(template, 1, kwargs, <<>>)

\* generate_dashboard_html(insights): the outcome of the call.
generate_dashboard_html(list) ==
    format(html_template,
           [insights_json |-> json_dumps(list), last_updated |-> strftime])

\* A run of main() starts in any environment; no document is being viewed.
InitBuild ==
    /\ pc = "search"
    /\ environ \in EnvironValues
    /\ fs \in FileSystems
    /\ pathIndex = 1
    /\ codebase_path = None
    /\ resolved = None
    /\ raised = "none"
    /\ indexHtml = None
    /\ returned = None
    /\ insights = <<>>
    /\ searchQuery = <<>>
    /\ statusFilter = ""
    /\ typeFilter = ""
    /\ viewMode = "grid"
    /\ exportInvoked = FALSE
    /\ download = None
    /\ thrown = "none"
    /\ statsAtLoad = stats

viewVars ==
    <<insights, searchQuery, statusFilter, typeFilter, viewMode,
      exportInvoked, download, thrown, statsAtLoad>>

\* One iteration of `for path in possible_paths`, or the end of the loop.
TryPath ==
    /\ pc = "search"
    /\ IF pathIndex > Len(possible_paths)
       THEN /\ pc' = "extract"
            /\ UNCHANGED <<pathIndex, codebase_path>>
       ELSE IF pathUsable(possible_paths[pathIndex])
       THEN /\ codebase_path' = possible_paths[pathIndex]
            /\ pc' = "extract"
            /\ UNCHANGED pathIndex
       ELSE /\ pathIndex' = pathIndex + 1
            /\ UNCHANGED <<pc, codebase_path>>
    /\ UNCHANGED <<environ, fs, resolved, raised, indexHtml, returned,
                   viewVars>>

\* The try statement and the return of the resolver.
Extract ==
    /\ pc = "extract"
    /\ LET result == resolveInsights(codebase_path)
       IN  IF result.raised # "none"
           THEN /\ raised' = result.raised
                /\ pc' = "done"
                /\ UNCHANGED resolved
           ELSE /\ resolved' = Some(result.value)
                /\ pc' = "generate"
                /\ UNCHANGED raised
    /\ UNCHANGED <<environ, fs, pathIndex, codebase_path, indexHtml,
                   returned, viewVars>>

\* The rest of main(): generate the document, write index.html, return.
GenerateAndWrite ==
    /\ pc = "generate"
    /\ LET result == generate_dashboard_html(resolved[1])
       IN  IF result.raised # "none"
           THEN /\ raised' = result.raised
                /\ UNCHANGED <<indexHtml, returned>>
           ELSE /\ indexHtml' = Some(result.value)
                /\ returned' = Some([statusCode |-> 200,
                                     body |-> result.value])
                /\ UNCHANGED raised
    /\ pc' = "done"
    /\ UNCHANGED <<environ, fs, pathIndex, codebase_path, resolved,
                   viewVars>>

NextBuild ==
    \/ TryPath
    \/ Extract
    \/ GenerateAndWrite

\* The run is a sequential program: it keeps taking steps until it ends.
SpecBuild == InitBuild /\ [][NextBuild]_vars /\ WF_vars(NextBuild)

\* ------------------------------------------------------------------------
\* Properties
\* ------------------------------------------------------------------------

\* The upper-case letter of each lower-case letter.
UpperOf ==
    [a |-> "A", b |-> "B", c |-> "C", d |-> "D", e |-> "E", f |-> "F",
     g |-> "G", h |-> "H", i |-> "I", j |-> "J", k |-> "K", l |-> "L",
     m |-> "M", n |-> "N", o |-> "O", p |-> "P", q |-> "Q", r |-> "R",
     s |-> "S", t |-> "T", u |-> "U", v |-> "V", w |-> "W", x |-> "X",
     y |-> "Y", z |-> "Z"]

\* Two characters are the same letter up to case.
LowerCaseLetters == DOMAIN UpperOf

SameLetter(c, d) ==
    \/ c = d
    \/ (c \in LowerCaseLetters /\ UpperOf[c] = d)
    \/ (d \in LowerCaseLetters /\ UpperOf[d] = c)

\* Two texts differ at most in letter case.
CaseVariants(s, t) ==
    /\ Len(s) = Len(t)
    /\ \A j \in 1..Len(s) : SameLetter(s[j], t[j])

\* q occurs in s as a substring, letter case ignored.
ContainsIgnoringCase(s, q) ==
    \E i \in 1..(Len(s) - Len(q) + 1) :
        \A j \in 1..Len(q) : SameLetter(s[i + j - 1], q[j])

SearchSelects(q, insight) ==
    \/ Len(q) = 0
    \/ ContainsIgnoringCase(insight.id, q)
    \/ ContainsIgnoringCase(insight.content, q)

StatusSelects(insight) ==
    statusFilter = "" \/ insight.status = statusFilter

TypeSelects(insight) ==
    \/ typeFilter = ""
    \/ (typeFilter = "static" /\ insight.isDynamic = FALSE)
    \/ (typeFilter = "dynamic" /\ insight.isDynamic = TRUE)

Selected(insight) ==
    /\ SearchSelects(searchQuery, insight)
    /\ StatusSelects(insight)
    /\ TypeSelects(insight)

OccursIn(list, r) == \E k \in 1..Len(list) : list[k] = r

\* sub is list with some elements left out, the others in their order.
IsSubsequence(sub, list) ==
    /\ Len(sub) <= Len(list)
    /\ \E f \in [1..Len(sub) -> 1..Len(list)] :
          /\ \A j, k \in 1..Len(sub) : j < k => f[j] < f[k]
          /\ \A k \in 1..Len(sub) : sub[k] = list[f[k]]

AllFiltersEmpty ==
    searchQuery = <<>> /\ statusFilter = "" /\ typeFilter = ""

AllFiltersSet ==
    searchQuery # <<>> /\ statusFilter # "" /\ typeFilter # ""

\* C1: an insight of the base sequence is in filteredInsights if and only
\* if it matches the search query, the status filter (empty, or equal to
\* the insight's status) and the type filter (empty, or static and the
\* insight is not dynamic, or dynamic and the insight is dynamic).
C1_FilterPredicate ==
    LET filtered == filteredInsights
    IN  /\ \A i \in 1..Len(insights) :
              OccursIn(filtered, insights[i]) <=> Selected(insights[i])
        /\ \A k \in 1..Len(filtered) : OccursIn(insights, filtered[k])

C1_Witness ==
    /\ AllFiltersSet
    /\ Len(filteredInsights) >= 1
    /\ Len(filteredInsights) < Len(insights)

\* C2: in every state reached by filter changes, view toggles and exports,
\* filteredInsights is a subsequence of the base sequence: only base
\* records, none more often than in the base, in the base's order.
C2_FilteredIsSubsequence ==
    LET filtered == filteredInsights
    IN  IsSubsequence(filtered, insights)

C2_Witness ==
    /\ Len(filteredInsights) = 2
    /\ filteredInsights[1] # filteredInsights[2]
    /\ ~AllFiltersEmpty
    /\ viewMode = "list"
    /\ exportInvoked

\* C3: matchesSearch holds exactly when the query is empty or occurs in
\* the id or in the content with letter case ignored; queries that differ
\* only in letter case select the same insights, and the empty query
\* selects every insight.
C3_SearchCaseInsensitive ==
    LET filtered == filteredInsights
    IN  /\ \A i \in 1..Len(insights) :
              matchesSearch(searchQuery, insights[i])
                  <=> SearchSelects(searchQuery, insights[i])
        /\ \A q \in Queries :
              CaseVariants(q, searchQuery) =>
                  filterInsights(q, statusFilter, typeFilter) = filtered
        /\ \A i \in 1..Len(insights) : matchesSearch(<<>>, insights[i])

C3_Witness ==
    /\ searchQuery = <<"A", "a">>
    /\ Len(filteredInsights) >= 1
    /\ Len(filteredInsights) < Len(insights)

\* C4: whenever the search query, the status filter and the type filter
\* are all empty, filteredInsights is the whole base sequence, at load
\* and after the filters were changed and reset.
C4_EmptyFiltersGiveBase ==
    AllFiltersEmpty => filteredInsights = insights

C4_Witness ==
    /\ AllFiltersEmpty
    /\ viewMode = "list"
    /\ exportInvoked
    /\ Len(insights) >= 2

\* C5: stats is computed over the base sequence: after any changes of the
\* filters and the view mode every counter has the value it had at load,
\* also when filteredInsights is empty.
C5_StatsIgnoreFilters == stats = statsAtLoad

C5_Witness ==
    /\ AllFiltersSet
    /\ viewMode = "list"
    /\ Len(insights) >= 1
    /\ Len(filteredInsights) = 0

CountWhere(P(_)) == Cardinality({i \in 1..Len(insights) : P(insights[i])})

\* C6: stats counts all records in total, the records of status live,
\* review and retired in the counter of that name, the records with
\* isDynamic in dynamic and the records with the hasCta flag in withCta.
C6_StatsCounts ==
    /\ stats.total = Len(insights)
    /\ stats.live = CountWhere(LAMBDA r : r.status = "live")
    /\ stats.review = CountWhere(LAMBDA r : r.status = "review")
    /\ stats.retired = CountWhere(LAMBDA r : r.status = "retired")
    /\ stats.dynamic = CountWhere(LAMBDA r : r.isDynamic)
    /\ stats.withCta = CountWhere(LAMBDA r : r.hasCta)
    /\ DOMAIN stats =
          {"total", "live", "review", "dynamic", "withCta", "retired"}

C6_Witness ==
    /\ insights = <<InsightA, InsightB>>
    /\ stats = [total |-> 2, live |-> 1, review |-> 0, dynamic |-> 1,
                withCta |-> 1, retired |-> 1]

HeaderLine == join([h \in 1..Len(headers) |-> Chars(headers[h])], <<",">>)

\* The base records the current filters select, in base order.
SelectedInsights == SelectSeq(insights, Selected)

\* C7: an export on a non-empty filtered set writes the header and then
\* one row per record of the current filteredInsights, in that order, and
\* no row for a record the current filters exclude.
C7_ExportsCurrentFilteredSet ==
    LET selected == SelectedInsights
    IN  (exportInvoked /\ Len(selected) > 0) =>
            /\ download # None
            /\ download[1] =
                  join(<<HeaderLine>>
                       \o [k \in 1..Len(selected) |->
                              csvLine(csvRow(selected[k]))],
                       <<"\n">>)

C7_Witness ==
    /\ exportInvoked
    /\ download # None
    /\ ~AllFiltersEmpty
    /\ Len(filteredInsights) >= 1
    /\ Len(filteredInsights) < Len(insights)

\* C8: an export invoked while filteredInsights is empty offers no file
\* for download and leaves the base sequence and the filter state
\* unchanged.
C8_EmptyExportNoArtifact ==
    [][(exportInvoked' /\ Len(filteredInsights) = 0) =>
          /\ download' = None
          /\ UNCHANGED <<insights, searchQuery, statusFilter, typeFilter,
                         viewMode>>]_vars

C8_Witness ==
    /\ exportInvoked
    /\ Len(insights) >= 1
    /\ Len(filteredInsights) = 0
    /\ download = None

\* C9: an export invoked while filteredInsights is empty completes
\* without raising an exception.
C9_EmptyExportCompletes ==
    (exportInvoked /\ Len(filteredInsights) = 0) => thrown = "none"

NeedsQuotes(s) == \E i \in 1..Len(s) : s[i] \in {",", "\"", "\n"}

RECURSIVE QuotesDoubled(_)
QuotesDoubled(s) ==
    IF Len(s) = 0 THEN <<>>
    ELSE QuotesDoubled(SubSeq(s, 1, Len(s) - 1))
         \o (IF s[Len(s)] = "\"" THEN <<"\"", "\"">> ELSE <<s[Len(s)]>>)

QuotedIfNeeded(s) ==
    IF NeedsQuotes(s) THEN <<"\"">> \o QuotesDoubled(s) \o <<"\"">> ELSE s

\* C10: in the exported text a data field is wrapped in double quotes,
\* its double quotes doubled, exactly when its value contains a comma, a
\* double quote or a newline; any other value, a number or a value with
\* only a carriage return included, is written unchanged.
C10_QuotingRule ==
    download # None =>
        LET data == csvData
        IN  download[1] =
                join(<<HeaderLine>>
                     \o [k \in 1..Len(data) |->
                            join([h \in 1..Len(headers) |->
                                     QuotedIfNeeded(
                                         stringOf(data[k][headers[h]]))],
                                 <<",">>)],
                     <<"\n">>)

C10_Witness ==
    /\ exportInvoked
    /\ download # None
    /\ OccursIn(filteredInsights, InsightB)
    /\ OccursIn(filteredInsights, InsightDraft)

\* The content as exported: carriage returns left out, every newline
\* turned into one space.
ExportedContent(content) ==
    LET kept == SelectSeq(content, LAMBDA ch : ch # "\r")
    IN  [i \in 1..Len(kept) |-> IF kept[i] = "\n" THEN " " ELSE kept[i]]

\* The texts of a list with the separator between neighbours.
RECURSIVE Separated(_, _)
Separated(list, sep) ==
    IF Len(list) = 0 THEN <<>>
    ELSE IF Len(list) = 1 THEN list[1]
    ELSE Separated(SubSeq(list, 1, Len(list) - 1), sep)
         \o sep \o list[Len(list)]

\* The texts of a list separated by "; ".
SemicolonList(list) == Separated(list, <<";", " ">>)

\* content  Hello, "World"<LF>Line2  with templateKeys [x, y]
ExampleRecord ==
    [InsightB EXCEPT
        !.content =
            <<"H", "e", "l", "l", "o", ",", " ", "\"", "W", "o", "r", "l",
              "d", "\"", "\n", "L", "i", "n", "e", "2">>,
        !.templateKeys = Some(<< <<"x">>, <<"y">> >>)]

\* "Hello, ""World"" Line2"
ExampleContentField ==
    <<"\"", "H", "e", "l", "l", "o", ",", " ", "\"", "\"", "W", "o", "r",
      "l", "d", "\"", "\"", " ", "L", "i", "n", "e", "2", "\"">>

\* What the export writes for the example record's content and keys.
ExampleContentWritten ==
    stringOf(csvField(csvRow(ExampleRecord)["Content"]))

ExampleKeysWritten ==
    stringOf(csvField(csvRow(ExampleRecord)["Dynamic Variables"]))

\* C11: the exported Content field is the content with every newline
\* replaced by one space and every carriage return removed, so it holds
\* neither; it is written under the quoting rule, and the Dynamic
\* Variables field is the templateKeys separated by "; ".  The content
\* Hello, "World"<LF>Line2 is written "Hello, ""World"" Line2" and the
\* keys [x, y] as x; y.
C11_ContentAndKeysFields ==
    /\ download # None =>
          LET data == csvData
              filtered == filteredInsights
              Cell(k, h) ==
                  CASE headers[h] = "Content" ->
                          QuotedIfNeeded(ExportedContent(filtered[k].content))
                    [] headers[h] = "Dynamic Variables" ->
                          QuotedIfNeeded(
                              IF filtered[k].templateKeys = None THEN <<>>
                              ELSE SemicolonList(filtered[k].templateKeys[1]))
                    [] OTHER -> stringOf(csvField(data[k][headers[h]]))
          IN  /\ \A k \in 1..Len(data) :
                    \A i \in 1..Len(data[k]["Content"].v) :
                        data[k]["Content"].v[i] \notin {"\n", "\r"}
              /\ download[1] =
                    join(<<HeaderLine>>
                         \o [k \in 1..Len(data) |->
                                join([h \in 1..Len(headers) |-> Cell(k, h)],
                                     <<",">>)],
                         <<"\n">>)
    /\ ExampleContentWritten = ExampleContentField
    /\ ExampleKeysWritten = <<"x", ";", " ", "y">>

C11_Witness ==
    /\ exportInvoked
    /\ download # None
    /\ OccursIn(filteredInsights, InsightB)
    /\ OccursIn(filteredInsights, InsightDraft)
    /\ ~AllFiltersEmpty

\* ID,Status,Priority,Type,Content,Dynamic Variables,CTA Text,CTA URL,
\* Required Context,Requires Primary User,Requires Profile Complete,Has CTA
HeaderRow ==
    <<"I", "D", ",", "S", "t", "a", "t", "u", "s", ",", "P", "r", "i", "o",
      "r", "i", "t", "y", ",", "T", "y", "p", "e", ",", "C", "o", "n", "t",
      "e", "n", "t", ",", "D", "y", "n", "a", "m", "i", "c", " ", "V", "a",
      "r", "i", "a", "b", "l", "e", "s", ",", "C", "T", "A", " ", "T", "e",
      "x", "t", ",", "C", "T", "A", " ", "U", "R", "L", ",", "R", "e", "q",
      "u", "i", "r", "e", "d", " ", "C", "o", "n", "t", "e", "x", "t", ",",
      "R", "e", "q", "u", "i", "r", "e", "s", " ", "P", "r", "i", "m", "a",
      "r", "y", " ", "U", "s", "e", "r", ",", "R", "e", "q", "u", "i", "r",
      "e", "s", " ", "P", "r", "o", "f", "i", "l", "e", " ", "C", "o", "m",
      "p", "l", "e", "t", "e", ",", "H", "a", "s", " ", "C", "T", "A">>

YesOrNo(b) == IF b THEN <<"Y", "e", "s">> ELSE <<"N", "o">>

\* The twelve field values of an insight's row, in column order.
RowValues(insight) ==
    <<insight.id,
      Chars(insight.status),
      NumToStr(insight.priority),
      IF insight.isDynamic THEN <<"D", "y", "n", "a", "m", "i", "c">>
                           ELSE <<"S", "t", "a", "t", "i", "c">>,
      ExportedContent(insight.content),
      IF insight.templateKeys = None THEN <<>>
      ELSE SemicolonList(insight.templateKeys[1]),
      IF insight.cta = None THEN <<>> ELSE insight.cta[1].text,
      IF insight.cta = None THEN <<>> ELSE insight.cta[1].url,
      IF insight.requiredContext = None THEN <<>>
      ELSE SemicolonList(insight.requiredContext[1]),
      YesOrNo(insight.requiresPrimaryUser),
      YesOrNo(insight.requiresProfileComplete),
      YesOrNo(insight.hasCta)>>

\* The row of an insight: its values under the quoting rule, with commas.
RowText(insight) ==
    LET values == RowValues(insight)
    IN  Separated([f \in 1..Len(values) |-> QuotedIfNeeded(values[f])],
                  <<",">>)

\* C12: every exported text starts with the unquoted header row and then
\* has, for each record, one newline and the record's row of exactly the
\* twelve fields in header order (Type Dynamic or Static, the three flags
\* Yes or No).
C12_HeaderAndColumns ==
    download # None =>
        LET filtered == filteredInsights
        IN  /\ \A k \in 1..Len(filtered) : Len(RowValues(filtered[k])) = 12
            /\ download[1] =
                  Separated(<<HeaderRow>>
                            \o [k \in 1..Len(filtered) |->
                                   RowText(filtered[k])],
                            <<"\n">>)

C12_Witness ==
    /\ exportInvoked
    /\ download # None
    /\ Len(filteredInsights) = 2
    /\ filteredInsights[1].isDynamic # filteredInsights[2].isDynamic
    /\ filteredInsights[1].hasCta # filteredInsights[2].hasCta

LacksOptionalField(insight) ==
    \/ insight.cta = None
    \/ insight.templateKeys = None
    \/ insight.requiredContext = None

\* C13: a record without cta, templateKeys or requiredContext never causes
\* an error: its exported CTA Text, CTA URL, Dynamic Variables and
\* Required Context fields of the absent ones are empty, the export does
\* not throw, and rendering it in either view evaluates no expression
\* that fails.
C13_AbsentFieldsTolerated ==
    LET filtered == filteredInsights
    IN  \A k \in 1..Len(filtered) :
            LacksOptionalField(filtered[k]) =>
                /\ exportInvoked => thrown = "none"
                /\ LET row == csvRow(filtered[k])
                   IN  /\ filtered[k].cta = None =>
                              /\ row["CTA Text"].v = <<>>
                              /\ row["CTA URL"].v = <<>>
                       /\ filtered[k].templateKeys = None =>
                              row["Dynamic Variables"].v = <<>>
                       /\ filtered[k].requiredContext = None =>
                              row["Required Context"].v = <<>>
                /\ \A view \in ViewModes, expr \in cardBindings :
                       <<view, k, expr>> \notin renderErrors

\* The positions of text at which Test holds, in increasing order.
PositionsWhere(text, Test(_)) ==
    SelectSeq([i \in 1..Len(text) |-> i], Test)

\* A raw field read back: a field that starts with a double quote loses
\* its outer quotes and has every doubled double quote turned into one.
Unquoted(raw) ==
    IF Len(raw) = 0 \/ raw[1] # "\"" THEN raw
    ELSE LET inner == SubSeq(raw, 2, Len(raw) - 1)
             quotes == {j \in 1..Len(inner) : inner[j] = "\""}
             kept == PositionsWhere(inner,
                        LAMBDA i : \/ inner[i] # "\""
                                   \/ Cardinality({j \in quotes : j < i}) % 2
                                        = 0)
         IN  [i \in 1..Len(kept) |-> inner[kept[i]]]

\* Reading CSV text back: rows end at the newlines outside quotes, fields
\* at the commas outside quotes (a position is outside quotes when an
\* even number of double quotes precedes it), each field then unquoted.
ParseCsv(text) ==
    LET quotes == {j \in 1..Len(text) : text[j] = "\""}
        seps == PositionsWhere(text,
                    LAMBDA i : /\ text[i] \in {",", "\n"}
                               /\ Cardinality({j \in quotes : j < i}) % 2 = 0)
        \* field t lies between separator t - 1 and separator t
        From(t) == IF t = 1 THEN 1 ELSE seps[t - 1] + 1
        To(t) == IF t > Len(seps) THEN Len(text) ELSE seps[t] - 1
        rowEnds == PositionsWhere(seps, LAMBDA t : text[seps[t]] = "\n")
        First(r) == IF r = 1 THEN 1 ELSE rowEnds[r - 1] + 1
        Last(r) == IF r > Len(rowEnds) THEN Len(seps) + 1 ELSE rowEnds[r]
    IN  [r \in 1..(Len(rowEnds) + 1) |->
            [f \in 1..(Last(r) - First(r) + 1) |->
                Unquoted(SubSeq(text, From(First(r) + f - 1),
                                To(First(r) + f - 1)))]]

\* C17: the exported text is unambiguous: reading it back gives the
\* header names and then, for each filtered insight, its twelve field
\* values as they were before quoting.
C17_ExportParsesBack ==
    download # None =>
        LET data == csvData
        IN  ParseCsv(download[1]) =
                <<[h \in 1..Len(headers) |-> Chars(headers[h])]>>
                \o [k \in 1..Len(data) |->
                       [h \in 1..Len(headers) |->
                           stringOf(data[k][headers[h]])]]

C17_Witness ==
    /\ exportInvoked
    /\ download # None
    /\ OccursIn(filteredInsights, InsightB)
    /\ OccursIn(filteredInsights, InsightDraft)

\* ------------------------------------------------------------------------
\* Properties of the build
\* ------------------------------------------------------------------------

\* The first candidate location, in the order of possible_paths, that is
\* a non-empty path of an existing location; None when there is none.
FirstExistingCandidate ==
    LET usable == {i \in 1..Len(possible_paths) :
                       /\ possible_paths[i] # None
                       /\ possible_paths[i][1] # ""
                       /\ possible_paths[i][1] \in fs.existing}
    IN  IF usable = {}
        THEN None
        ELSE possible_paths[CHOOSE i \in usable : \A j \in usable : i <= j]

ResolverReturned == pc \in {"generate", "done"}

\* C14: whenever the resolver returns, in whatever environment, it returns
\* exactly the built-in fallback sequence (real extraction never succeeds),
\* never a different sequence such as the empty one.
C14_FallbackWheneverReturned ==
    ResolverReturned /\ resolved # None
        => resolved[1] = get_hardcoded_insights

\* C15: in every environment the resolver terminates by returning a
\* sequence of records and never by raising, and the location it used is
\* the first existing candidate in order, the environment path first.
C15_ResolverNeverRaises ==
    /\ [](ResolverReturned =>
              /\ resolved # None
              /\ resolved[1] \in {<<>>, get_hardcoded_insights}
              /\ codebase_path = FirstExistingCandidate)
    /\ [](pc \in {"search", "extract"} => raised = "none")
    /\ <>ResolverReturned

\* The environment path does not exist, the second fixed candidate is the
\* first that does, reading the source files raised, and the resolver has
\* returned.
C15_Witness ==
    /\ pc = "generate"
    /\ environ = Some("/srv/codebase")
    /\ fs.existing = {"../../hometap", "/tmp/codebase"}
    /\ fs.definitions /\ fs.templates /\ ~fs.readable
    /\ codebase_path = Some("../../hometap")
    /\ resolved = Some(get_hardcoded_insights)

\* C16: for every resolved sequence the run of main() ends without an
\* exception, with the document written to index.html and statusCode 200
\* returned.
C16_GenerationSucceeds ==
    pc = "done" =>
        /\ raised = "none"
        /\ indexHtml # None
        /\ returned # None
        /\ returned[1].statusCode = 200
        /\ returned[1].body = indexHtml[1]

====
